---- MODULE Spec2Model ----
(***************************************************************************)
(* graphql-fragment-argument-linter: the FragmentArgumentVisitor           *)
(* (src/src/visitor.ts) and the plugin function that drives it in three    *)
(* passes (src/src/plugin.ts).                                             *)
(*                                                                         *)
(* The visitor is reached through two entry points: its public methods     *)
(* called one by one (as tests/visitor.test.ts does), and a plugin run.    *)
(* `entry` says which of the two a behaviour follows: VisitorSpec has the  *)
(* first, PluginSpec the second, Spec both.                                *)
(*                                                                         *)
(* plugin.ts calls visitor.collectFragmentSpread and                       *)
(* visitor.validateFragmentSpreads, which visitor.ts does not define; the  *)
(* two methods, the spread list and the definition index they work on are  *)
(* modelled from spec.md sections 3, 4.1-4.3 and 7.  this.config is taken  *)
(* to be the configuration object handed to the constructor.               *)
(***************************************************************************)
EXTENDS Integers, Sequences, FiniteSets, TLC

\* ------------------------------------------------------------------ bounds
MaxChecked == 2      \* validateFragment calls made through the public API
MaxSpreads == 2      \* spreads collected through the public API
MaxIssues == 2       \* public API calls stop once the issue list is this long
MaxDirectives == 1   \* directives on a node handed to the public API
MaxRules == 1        \* custom rules in a configuration
MaxDefs == 2         \* definitions in the documents of a plugin run
MaxSelections == 4   \* selections in a selection set handed to findFragmentSpreads alone

\* ------------------------------------------------------------------- data
\* Fragment names.  FirstCharUpper tells which start with [A-Z].
Names == {"UserFields", "postFields"}
OtherName == "Other"
FirstCharUpper == [UserFields |-> TRUE, postFields |-> FALSE, Other |-> TRUE]

\* A node's location; NoLoc stands for a node that has none.
NoLoc == [line |-> 0, column |-> 0]
At(line, column) == [line |-> line, column |-> column]

SeqsUpTo(S, n) == UNION {[1..k -> S] : k \in 0..n}

DefinitionDirectiveNames == {"argumentDefinitions", "include"}
SpreadDirectiveNames == {"arguments", "include"}

\* A node's directives: absent (hasDirectives = FALSE) or a list of names.
DirectiveLists(names) ==
    {[hasDirectives |-> FALSE, directives |-> <<>>]}
    \cup {[hasDirectives |-> TRUE, directives |-> ds] : ds \in SeqsUpTo(names, MaxDirectives)}

\* The nodes handed to the public API carry no location here (loc is optional
\* on an AST node); the nodes of a plugin run are parsed and carry one.
\* The part of a FragmentDefinition node validateFragment is handed.
DefinitionNodes ==
    {[hasDirectives |-> d.hasDirectives, directives |-> d.directives, loc |-> NoLoc] :
        d \in DirectiveLists(DefinitionDirectiveNames)}

\* FragmentSpread nodes.
SpreadNodes ==
    {[kind |-> "FragmentSpread", name |-> n, hasDirectives |-> d.hasDirectives,
      directives |-> d.directives, loc |-> NoLoc] :
        n \in Names, d \in DirectiveLists(SpreadDirectiveNames)}

\* A selection set is absent (present = FALSE) or a list of selections; a
\* selection is a FragmentSpread, or a Field or InlineFragment that may carry
\* a selection set of its own.
NoSelectionSet == [present |-> FALSE, selections |-> <<>>]
SelectionSetOf(selections) == [present |-> TRUE, selections |-> selections]

ScalarField == [kind |-> "Field", selectionSet |-> NoSelectionSet]
FieldOf(selections) == [kind |-> "Field", selectionSet |-> SelectionSetOf(selections)]

\* The documents graphql's parse() gives a plugin run: every node has a
\* directive list and a location, distinct nodes have distinct locations, and
\* a selection set is never empty.  The definition that is `line`-th in the
\* run starts at At(line, 1); a spread inside it is at At(line, 2).
ParsedSpreads(line) ==
    {[kind |-> "FragmentSpread", name |-> n, hasDirectives |-> TRUE,
      directives |-> ds, loc |-> At(line, 2)] :
        n \in Names, ds \in {<<>>, <<"arguments">>}}

\* An operation selects a scalar field, or that and a field with a spread
\* below it.
OperationSelectionSets(line) ==
    {SelectionSetOf(<<ScalarField>>)}
    \cup {SelectionSetOf(<<ScalarField, FieldOf(<<s>>)>>) : s \in ParsedSpreads(line)}

\* A fragment selects a scalar field, or spreads a fragment (another or, as
\* parse() lets it, itself) with @arguments.
FragmentSelectionSets(name, line) ==
    {SelectionSetOf(<<ScalarField>>)}
    \cup {SelectionSetOf(<<s>>) :
            s \in {t \in ParsedSpreads(line) : t.directives = <<"arguments">>}}

ParsedDefinitions(line) ==
    UNION {{[kind |-> "FragmentDefinition", name |-> n, hasDirectives |-> TRUE,
             directives |-> ds, loc |-> At(line, 1), selectionSet |-> ss] :
                ds \in {<<>>, <<"argumentDefinitions">>},
                ss \in FragmentSelectionSets(n, line)} : n \in Names}
    \cup {[kind |-> "OperationDefinition", selectionSet |-> ss] :
            ss \in OperationSelectionSets(line)}
    \cup {[kind |-> "SchemaDefinition"]}

\* The definitions of a run, in document order.
RECURSIVE DefinitionLists(_)
DefinitionLists(n) ==
    IF n = 0 THEN {<<>>}
    ELSE {Append(defs, d) : defs \in DefinitionLists(n - 1), d \in ParsedDefinitions(n)}

\* A document file: its document may be missing (hasDocument = FALSE).
NoDocumentFile == [hasDocument |-> FALSE, definitions |-> <<>>]
DocumentFile(defs) == [hasDocument |-> TRUE, definitions |-> defs]

\* The files a list of definitions comes in: one file, or the first definition
\* in a file of its own, a file without a document, and a file with the rest.
FilesOf(defs) ==
    {<<DocumentFile(defs)>>}
    \cup (IF defs = <<>> THEN {}
          ELSE {<<DocumentFile(<<Head(defs)>>), NoDocumentFile, DocumentFile(Tail(defs))>>})

DocumentSets == UNION {FilesOf(defs) : defs \in UNION {DefinitionLists(n) : n \in 0..MaxDefs}}

\* The selection sets findFragmentSpreads is tried on by itself: every tree of
\* n selections (spreads, fields with and without a selection set, inline
\* fragments), each spread located where the source text has it: a selection
\* starts at column `from`, its sub-selections follow it, and its next
\* sibling starts after them.
SpreadAt(column) ==
    [kind |-> "FragmentSpread", name |-> "UserFields", hasDirectives |-> TRUE,
     directives |-> <<>>, loc |-> At(1, column)]

RECURSIVE SelectionLists(_, _)
SelectionLists(n, from) ==
    IF n = 0 THEN {<<>>}
    ELSE UNION {
            {<<first>> \o rest :
                first \in (IF size = 1
                           THEN {SpreadAt(from), ScalarField}
                           ELSE {[kind |-> k, selectionSet |-> SelectionSetOf(below)] :
                                    k \in {"Field", "InlineFragment"},
                                    below \in SelectionLists(size - 1, from + 1)}),
                rest \in SelectionLists(n - size, from + size)} :
            size \in 1..n}

SelectionTrees ==
    {NoSelectionSet}
    \cup {SelectionSetOf(selections) :
            selections \in UNION {SelectionLists(n, 1) : n \in 0..MaxSelections}}

\* The plugin's own configuration: requireArgumentDefinitions is unset (<<>>)
\* or set (<<b>>).
RawConfigs == {[requireArgumentDefinitions |-> o] : o \in {<<>>, <<TRUE>>, <<FALSE>>}}

\* ---------------------------------------------------------- configuration
\* A custom rule is a function validate(fragmentName, args) -> issues.
\* "echo" reports the fragment it is handed, "other" reports another name.
RuleKinds == {"echo", "other"}

ruleValidate(rule, fragmentName, args) ==
    CASE rule = "echo" -> <<[level |-> "warning", message |-> "Custom rule triggered",
                             fragmentName |-> fragmentName, location |-> NoLoc]>>
      [] rule = "other" -> <<[level |-> "error", message |-> "Test error",
                              fragmentName |-> OtherName, location |-> NoLoc]>>

IgnoreLists == {{}, {"UserFields"}}

AllConfigs ==
    [requireArgumentDefinitions : BOOLEAN,
     ignoreFragments : IgnoreLists,
     requireExplicitTypes : BOOLEAN,
     requireDocumentation : BOOLEAN,
     strictMode : BOOLEAN,
     customRules : SeqsUpTo(RuleKinds, MaxRules)]

\* The documented defaults (src/README.md, "設定オプション詳細").
DefaultConfig ==
    [requireArgumentDefinitions |-> TRUE,
     ignoreFragments |-> {},
     requireExplicitTypes |-> TRUE,
     requireDocumentation |-> FALSE,
     strictMode |-> FALSE,
     customRules |-> <<>>]

OptionNames == DOMAIN DefaultConfig

\* The configurations a visitor is constructed with: the defaults, or the
\* defaults with one option set to something else.
Configs ==
    {c \in AllConfigs :
        \E o \in OptionNames : \A p \in OptionNames \ {o} : c[p] = DefaultConfig[p]}

\* ---------------------------------------------------------------- visitor
VARIABLES entry, visitor, last, calls, documents, rawConfig, allFragments, pc, idx, outcome,
          root, found, first

\* new FragmentArgumentVisitor(schema, fragments, config)
newVisitor(config) ==
    [config |-> config,
     issues |-> <<>>,
     fragmentsChecked |-> 0,
     fragmentsWithIssues |-> {},
     fragmentDefinitions |-> <<>>,
     fragmentSpreads |-> <<>>]

\* addIssue that marks the fragment and forgets the push
addIssue_noPush(v, issue) ==
    [v EXCEPT !.fragmentsWithIssues = @ \cup {issue.fragmentName}]

\* addIssue that pushes the issue twice
addIssue_pushTwice(v, issue) ==
    [v EXCEPT !.issues = Append(Append(@, issue), issue),
              !.fragmentsWithIssues = @ \cup {issue.fragmentName}]

\* addIssue that puts the new issue at the head of the list
addIssue_unshift(v, issue) ==
    [v EXCEPT !.issues = <<issue>> \o @,
              !.fragmentsWithIssues = @ \cup {issue.fragmentName}]

addIssue(v, issue) ==
    [v EXCEPT !.issues = Append(@, issue),
              !.fragmentsWithIssues = @ \cup {issue.fragmentName}]

getIssues(v) == v.issues

getStats(v) ==
    [fragmentsChecked |-> v.fragmentsChecked,
     fragmentsWithIssues |-> Cardinality(v.fragmentsWithIssues),
     totalIssues |-> Len(v.issues)]

RECURSIVE extractFrom(_, _)
extractFrom(directives, k) ==
    IF k > Len(directives) THEN <<>>
    ELSE (IF directives[k] = "argumentDefinitions"
          THEN <<[name |-> "exampleArg", type |-> "String", description |-> ""]>>
          ELSE <<>>) \o extractFrom(directives, k + 1)

extractFragmentArguments(fragmentDefinition) ==
    IF fragmentDefinition.hasDirectives
    THEN extractFrom(fragmentDefinition.directives, 1)
    ELSE <<>>

RECURSIVE validateExplicitTypes(_, _, _)
validateExplicitTypes(v, fragmentName, args) ==
    IF args = <<>> THEN v
    ELSE validateExplicitTypes(
            IF Head(args).type = ""
            THEN addIssue(v, [level |-> "error", message |-> "must have an explicit type",
                              fragmentName |-> fragmentName, location |-> NoLoc])
            ELSE v,
            fragmentName, Tail(args))

RECURSIVE validateDocumentation(_, _, _)
validateDocumentation(v, fragmentName, args) ==
    IF args = <<>> THEN v
    ELSE validateDocumentation(
            IF Head(args).description = ""
            THEN addIssue(v, [level |-> "warning", message |-> "should have documentation",
                              fragmentName |-> fragmentName, location |-> NoLoc])
            ELSE v,
            fragmentName, Tail(args))

\* /^[a-z][a-zA-Z0-9]*$/ on the one argument name extractFragmentArguments makes
IsCamelCase(argName) == argName = "exampleArg"

RECURSIVE strictArgs(_, _, _)
strictArgs(v, fragmentName, args) ==
    IF args = <<>> THEN v
    ELSE strictArgs(
            IF ~IsCamelCase(Head(args).name)
            THEN addIssue(v, [level |-> "error", message |-> "must use camelCase naming",
                              fragmentName |-> fragmentName, location |-> NoLoc])
            ELSE v,
            fragmentName, Tail(args))

validateStrictMode(v, fragmentName, args) ==
    IF Len(args) > 0
    THEN strictArgs(
            IF ~FirstCharUpper[fragmentName]
            THEN addIssue(v, [level |-> "error", message |-> "must use PascalCase naming",
                              fragmentName |-> fragmentName, location |-> NoLoc])
            ELSE v,
            fragmentName, args)
    ELSE v

RECURSIVE applyCustomRules(_, _, _, _)
applyCustomRules(v, rules, fragmentName, args) ==
    IF rules = <<>> THEN v
    ELSE LET ruleIssues == ruleValidate(Head(rules), fragmentName, args)
             pushed == [v EXCEPT !.issues = @ \o ruleIssues]
             marked == IF Len(ruleIssues) > 0
                       THEN [pushed EXCEPT !.fragmentsWithIssues = @ \cup {fragmentName}]
                       ELSE pushed
         IN applyCustomRules(marked, Tail(rules), fragmentName, args)

\* an index that keeps the record a name already has
indexDefinition_firstWins(v, fragmentName, fragmentDefinition) ==
    LET declares == fragmentDefinition.hasDirectives
                    /\ \E k \in 1..Len(fragmentDefinition.directives) :
                          fragmentDefinition.directives[k] = "argumentDefinitions"
        old == v.fragmentDefinitions
    IN IF fragmentName \in DOMAIN old THEN v
       ELSE [v EXCEPT !.fragmentDefinitions =
                [n \in (DOMAIN old) \cup {fragmentName} |->
                    IF n = fragmentName THEN [hasArgumentDefinitions |-> declares]
                    ELSE old[n]]]

\* The definition index of spec.md 4.1: one record per name, last write wins.
indexDefinition(v, fragmentName, fragmentDefinition) ==
    LET declares == fragmentDefinition.hasDirectives
                    /\ \E k \in 1..Len(fragmentDefinition.directives) :
                          fragmentDefinition.directives[k] = "argumentDefinitions"
        old == v.fragmentDefinitions
    IN [v EXCEPT !.fragmentDefinitions =
            [n \in (DOMAIN old) \cup {fragmentName} |->
                IF n = fragmentName THEN [hasArgumentDefinitions |-> declares] ELSE old[n]]]

\* validateFragment that counts a fragment only after the ignore check
validateFragment_countAfterIgnore(v0, fragmentName, fragmentDefinition) ==
    LET v1 == indexDefinition(v0, fragmentName, fragmentDefinition)
    IN IF fragmentName \in v1.config.ignoreFragments THEN v1
       ELSE LET args == extractFragmentArguments(fragmentDefinition)
                v2 == IF v1.config.requireExplicitTypes
                      THEN validateExplicitTypes(v1, fragmentName, args) ELSE v1
                v3 == IF v2.config.requireDocumentation
                      THEN validateDocumentation(v2, fragmentName, args) ELSE v2
                v4 == IF v3.config.strictMode
                      THEN validateStrictMode(v3, fragmentName, args) ELSE v3
            IN [applyCustomRules(v4, v4.config.customRules, fragmentName, args)
                    EXCEPT !.fragmentsChecked = @ + 1]

validateFragment(v0, fragmentName, fragmentDefinition) ==
    LET v1 == indexDefinition([v0 EXCEPT !.fragmentsChecked = @ + 1],
                              fragmentName, fragmentDefinition)
    IN IF fragmentName \in v1.config.ignoreFragments THEN v1
       ELSE LET args == extractFragmentArguments(fragmentDefinition)
                v2 == IF v1.config.requireExplicitTypes
                      THEN validateExplicitTypes(v1, fragmentName, args) ELSE v1
                v3 == IF v2.config.requireDocumentation
                      THEN validateDocumentation(v2, fragmentName, args) ELSE v2
                v4 == IF v3.config.strictMode
                      THEN validateStrictMode(v3, fragmentName, args) ELSE v3
            IN applyCustomRules(v4, v4.config.customRules, fragmentName, args)

\* spec.md 4.2 collectSpread: name, supplies-arguments flag and location of one
\* spread, appended to the ordered spread list; nothing else changes.
\* a collectFragmentSpread that also counts the spread's fragment as checked
collectFragmentSpread_countsChecked(v, spread) ==
    [v EXCEPT !.fragmentsChecked = @ + 1,
              !.fragmentSpreads =
                  Append(@, [name |-> spread.name, hasArguments |-> FALSE,
                             location |-> spread.loc])]

collectFragmentSpread(v, spread) ==
    LET supplies == spread.hasDirectives
                    /\ \E k \in 1..Len(spread.directives) : spread.directives[k] = "arguments"
    IN [v EXCEPT !.fragmentSpreads =
            Append(@, [name |-> spread.name, hasArguments |-> supplies,
                       location |-> spread.loc])]

\* spec.md 4.3 steps 1-5 for one spread record S.  A spread of a name that has no
\* indexed definition is the UndefinedFragmentReference of spec.md 7, for which
\* the spec leaves two policies open: "abort" (the call throws there) and
\* "report" (an error issue is recorded and matching goes on).
UndefinedPolicies == {"abort", "report"}

\* a matcher that passes over a spread of a fragment it has no definition of
matchSpread_skipsUndefined(v, S) ==
    IF S.name \notin DOMAIN v.fragmentDefinitions THEN v
    ELSE LET D == v.fragmentDefinitions[S.name]
         IN IF D.hasArgumentDefinitions /\ ~S.hasArguments
            THEN addIssue(v, [level |-> "error", message |-> "must have @arguments directive",
                              fragmentName |-> S.name, location |-> S.location])
            ELSE IF ~D.hasArgumentDefinitions /\ S.hasArguments
            THEN addIssue(v, [level |-> "error",
                              message |-> "does not define @argumentDefinitions",
                              fragmentName |-> S.name, location |-> S.location])
            ELSE v

\* a matcher that reports every spread with @arguments, whatever its definition
matchSpread_ignoresDefinition(v, S) ==
    IF S.hasArguments
    THEN [v EXCEPT !.issues = Append(@, [level |-> "error",
                                         message |-> "does not define @argumentDefinitions",
                                         fragmentName |-> S.name, location |-> S.location]),
                   !.fragmentsWithIssues = @ \cup {S.name}]
    ELSE v

\* a matcher that reports a fragment once, however many of its spreads violate
matchSpread_oncePerFragment(v, S) ==
    IF S.name \in v.fragmentsWithIssues THEN v
    ELSE IF S.name \notin DOMAIN v.fragmentDefinitions
    THEN addIssue(v, [level |-> "error", message |-> "references an undefined fragment",
                      fragmentName |-> S.name, location |-> S.location])
    ELSE LET D == v.fragmentDefinitions[S.name]
         IN IF D.hasArgumentDefinitions /\ ~S.hasArguments
            THEN addIssue(v, [level |-> "error", message |-> "must have @arguments directive",
                              fragmentName |-> S.name, location |-> S.location])
            ELSE IF ~D.hasArgumentDefinitions /\ S.hasArguments
            THEN addIssue(v, [level |-> "error",
                              message |-> "does not define @argumentDefinitions",
                              fragmentName |-> S.name, location |-> S.location])
            ELSE v

matchSpread(v, S) ==
    IF S.name \notin DOMAIN v.fragmentDefinitions
    THEN addIssue(v, [level |-> "error", message |-> "references an undefined fragment",
                      fragmentName |-> S.name, location |-> S.location])
    ELSE LET D == v.fragmentDefinitions[S.name]
         IN IF D.hasArgumentDefinitions /\ ~S.hasArguments
            THEN addIssue(v, [level |-> "error", message |-> "must have @arguments directive",
                              fragmentName |-> S.name, location |-> S.location])
            ELSE IF ~D.hasArgumentDefinitions /\ S.hasArguments
            THEN addIssue(v, [level |-> "error",
                              message |-> "does not define @argumentDefinitions",
                              fragmentName |-> S.name, location |-> S.location])
            ELSE v

\* The matcher's loop over the spread list, in collection order.  The result
\* carries, beside the visitor, what each iteration appended to the issue list
\* (emitted[k] for spread k) and whether the call threw.
RECURSIVE matchFrom(_, _, _, _)
matchFrom(v, k, emitted, policy) ==
    IF k > Len(v.fragmentSpreads)
    THEN [visitor |-> v, emitted |-> emitted, threw |-> FALSE]
    ELSE LET S == v.fragmentSpreads[k]
         IN IF S.name \notin DOMAIN v.fragmentDefinitions /\ policy = "abort"
            THEN [visitor |-> v, emitted |-> emitted, threw |-> TRUE]
            ELSE LET w == matchSpread(v, S)
                     delta == SubSeq(w.issues, Len(v.issues) + 1, Len(w.issues))
                 IN matchFrom(w, k + 1, Append(emitted, delta), policy)

validateFragmentSpreads(v, policy) == matchFrom(v, 1, <<>>, policy)

\* ----------------------------------------------------------------- plugin
\* config.requireArgumentDefinitions ?? true; the visitor reads every other
\* option of this object as undefined.
configWithDefaults(config) ==
    [requireArgumentDefinitions |->
        IF config.requireArgumentDefinitions = <<>> THEN TRUE
        ELSE config.requireArgumentDefinitions[1],
     ignoreFragments |-> {},
     requireExplicitTypes |-> TRUE,
     requireDocumentation |-> FALSE,
     strictMode |-> FALSE,
     customRules |-> <<>>]

\* The definitions the two document loops visit, in order: those of every
\* document file that has a document.
RECURSIVE definitionsOf(_)
definitionsOf(docs) ==
    IF docs = <<>> THEN <<>>
    ELSE (IF Head(docs).hasDocument THEN Head(docs).definitions ELSE <<>>)
         \o definitionsOf(Tail(docs))

IsFragmentDefinition(definition) == definition.kind = "FragmentDefinition"

RECURSIVE loadedFragments(_)
loadedFragments(defs) ==
    IF defs = <<>> THEN <<>>
    ELSE (IF IsFragmentDefinition(Head(defs))
          THEN <<[node |-> Head(defs), name |-> Head(defs).name]>>
          ELSE <<>>) \o loadedFragments(Tail(defs))

collectAllFragments(docs) == loadedFragments(definitionsOf(docs))

\* a selection loop that takes the spreads of its own list first and those
\* nested below its fields after them
RECURSIVE spreadsOfSelections_spreadsFirst(_)
RECURSIVE belowSelections_spreadsFirst(_)
belowSelections_spreadsFirst(selections) ==
    IF selections = <<>> THEN <<>>
    ELSE (IF Head(selections).kind # "FragmentSpread" /\ Head(selections).selectionSet.present
          THEN spreadsOfSelections_spreadsFirst(Head(selections).selectionSet.selections)
          ELSE <<>>)
         \o belowSelections_spreadsFirst(Tail(selections))

spreadsOfSelections_spreadsFirst(selections) ==
    LET IsSpread(selection) == selection.kind = "FragmentSpread"
    IN SelectSeq(selections, IsSpread) \o belowSelections_spreadsFirst(selections)

RECURSIVE findFragmentSpreads(_)
RECURSIVE spreadsOfSelections(_)
spreadsOfSelections(selections) ==
    IF selections = <<>> THEN <<>>
    ELSE LET selection == Head(selections)
         IN (IF selection.kind = "FragmentSpread" THEN <<selection>>
             ELSE IF selection.selectionSet.present
                  THEN findFragmentSpreads(selection.selectionSet)
                  ELSE <<>>)
            \o spreadsOfSelections(Tail(selections))

findFragmentSpreads(selectionSet) ==
    IF ~selectionSet.present THEN <<>>
    ELSE spreadsOfSelections(selectionSet.selections)

\* a second pass that looks into operations only
HasSelectionSet_operationsOnly(definition) == definition.kind = "OperationDefinition"

HasSelectionSet(definition) ==
    definition.kind = "OperationDefinition" \/ definition.kind = "FragmentDefinition"

RECURSIVE collectSpreads(_, _)
collectSpreads(v, spreads) ==
    IF spreads = <<>> THEN v
    ELSE collectSpreads(collectFragmentSpread(v, Head(spreads)), Tail(spreads))

IsError(issue) == issue.level = "error"
errorsOf(issues) == SelectSeq(issues, IsError)

\* One line of the report: what kind of line it is, its text and, where the
\* line has them, a number, an issue's icon and level, and a location.
ReportLine(kind, text) ==
    [kind |-> kind, text |-> text, number |-> 0, icon |-> "", level |-> "",
     location |-> NoLoc]
BlankLine == ReportLine("blank", "")
CountLine(label, number) == [ReportLine("count", label) EXCEPT !.number = number]

getIconForLevel(level) ==
    CASE level = "error" -> "cross"
      [] level = "warning" -> "warning sign"
      [] level = "info" -> "information sign"

\* `icon **LEVEL**: message (line l, column c)`, the location only when the
\* issue has one.
IssueLine(issue) ==
    [ReportLine("issue", issue.message) EXCEPT !.icon = getIconForLevel(issue.level),
                                               !.level = issue.level,
                                               !.location = issue.location]

\* The keys of issuesByFragment, in the order the Map got them.
RECURSIVE groupKeys(_, _)
groupKeys(issues, keys) ==
    IF issues = <<>> THEN keys
    ELSE groupKeys(Tail(issues),
                   IF \E k \in 1..Len(keys) : keys[k] = Head(issues).fragmentName
                   THEN keys ELSE Append(keys, Head(issues).fragmentName))

\* issuesByFragment.get(fragmentName)
issuesByFragment(issues, fragmentName) ==
    LET OfFragment(issue) == issue.fragmentName = fragmentName
    IN SelectSeq(issues, OfFragment)

\* Array.prototype.sort() without a comparator orders strings by their UTF-16
\* code units; the names here differ in their first one.
FirstCodeUnit == [Other |-> 79, UserFields |-> 85, postFields |-> 112]
CodeUnitsBefore(a, b) == FirstCodeUnit[a] < FirstCodeUnit[b]

RECURSIVE insertName(_, _)
insertName(sorted, name) ==
    IF sorted = <<>> THEN <<name>>
    ELSE IF CodeUnitsBefore(name, Head(sorted)) THEN <<name>> \o sorted
    ELSE <<Head(sorted)>> \o insertName(Tail(sorted), name)

\* the fragment names left in the order the Map got them
sortNames_unsorted(names) == names

RECURSIVE sortNames(_)
sortNames(names) ==
    IF names = <<>> THEN <<>>
    ELSE insertName(sortNames(SubSeq(names, 1, Len(names) - 1)), names[Len(names)])

RECURSIVE issueLines(_)
issueLines(fragmentIssues) ==
    IF fragmentIssues = <<>> THEN <<>>
    ELSE <<IssueLine(Head(fragmentIssues))>> \o issueLines(Tail(fragmentIssues))

RECURSIVE fragmentSections(_, _)
fragmentSections(issues, sortedFragmentNames) ==
    IF sortedFragmentNames = <<>> THEN <<>>
    ELSE <<ReportLine("fragment", Head(sortedFragmentNames)), BlankLine>>
         \o issueLines(issuesByFragment(issues, Head(sortedFragmentNames)))
         \o <<BlankLine>>
         \o fragmentSections(issues, Tail(sortedFragmentNames))

\* generateReport(issues, stats): the lines it joins.
generateReport(issues, stats) ==
    LET summary == <<ReportLine("title", "GraphQL Fragment Argument Linter Report"),
                     BlankLine,
                     ReportLine("heading", "Summary"),
                     CountLine("Fragments with issues", stats.fragmentsWithIssues),
                     CountLine("Total issues", stats.totalIssues),
                     BlankLine>>
    IN IF Len(issues) = 0
       THEN Append(summary, ReportLine("text", "No issues found! All fragments are valid."))
       ELSE summary
            \o <<ReportLine("heading", "Issues Found"), BlankLine>>
            \o fragmentSections(issues, sortNames(groupKeys(issues, <<>>)))

\* an escalation that lets a single error pass
escalate_moreThanOne(issues, stats) ==
    IF Len(errorsOf(issues)) > 1
    THEN [kind |-> "failed", errors |-> Len(errorsOf(issues)),
          report |-> generateReport(issues, stats)]
    ELSE [kind |-> "returned", errors |-> 0, report |-> generateReport(issues, stats)]

\* What the run gives its caller: the report returned, or the Error thrown
\* with the number of errors and the report in its message.
escalate(issues, stats) ==
    IF Len(errorsOf(issues)) > 0
    THEN [kind |-> "failed", errors |-> Len(errorsOf(issues)),
          report |-> generateReport(issues, stats)]
    ELSE [kind |-> "returned", errors |-> 0, report |-> generateReport(issues, stats)]

\* ------------------------------------------------------------------ state
vars == <<entry, visitor, last, calls, documents, rawConfig, allFragments, pc, idx, outcome,
          root, found, first>>

\* The last call made on the visitor: the method, its arguments, the length of
\* the issue list when it was called and, for validateFragmentSpreads, what
\* each matched spread appended and whether the call threw.
NoCall ==
    [op |-> "none", name |-> "", node |-> <<>>, base |-> 0,
     emitted |-> <<>>, threw |-> FALSE, policy |-> ""]

\* `calls` counts the validateFragment calls made on the visitor.

\* What the first of two plugin runs on the same documents and configuration
\* gave: its outcome, its visitor's issues and counts, and the
\* undefined-fragment policy its visitor applied (the second run is one of the
\* same build and applies the same).
NoFirst ==
    [ran |-> FALSE, outcome |-> [kind |-> "none", errors |-> 0, report |-> <<>>],
     issues |-> <<>>, stats |-> getStats(newVisitor(DefaultConfig)), policy |-> ""]

\* a run that goes on with the visitor of the run before it
visitorOfRun_reused(previous, config) == previous

\* plugin.ts constructs the visitor of a run inside the run; nothing of an
\* earlier run's visitor is handed to it.
visitorOfRun(previous, config) == newVisitor(config)

NoOutcome == [kind |-> "none", errors |-> 0, report |-> <<>>]

\* a run that goes from its first pass straight to the third
Position_pass3AfterPass1(p, i, frags, defs) ==
    IF p = "pass1" /\ i <= Len(frags) THEN <<"pass1", i>> ELSE <<"pass3", 1>>

\* Where a plugin run stands: the pass and the index of the next element of
\* the pass's loop, with finished (or empty) loops stepped over.
Position(p, i, frags, defs) ==
    IF p = "pass1" /\ i <= Len(frags) THEN <<"pass1", i>>
    ELSE IF p = "pass1" THEN (IF defs = <<>> THEN <<"pass3", 1>> ELSE <<"pass2", 1>>)
    ELSE IF p = "pass2" /\ i <= Len(defs) THEN <<"pass2", i>>
    ELSE <<"pass3", 1>>

InitApi ==
    /\ entry = "api"
    /\ visitor \in {newVisitor(c) : c \in Configs}
    /\ last = NoCall
    /\ calls = 0
    /\ documents = <<>>
    /\ rawConfig = [requireArgumentDefinitions |-> <<>>]
    /\ allFragments = <<>>
    /\ pc = "api"
    /\ idx = 0
    /\ outcome = NoOutcome
    /\ root = NoSelectionSet
    /\ found = <<>>
    /\ first = NoFirst

\* The public API about to be called with nodes of a parsed document, which
\* carry their location (tests/visitor.test.ts 79-97).
InitParsed ==
    /\ entry = "parsed"
    /\ visitor \in {newVisitor(c) : c \in Configs}
    /\ last = NoCall
    /\ calls = 0
    /\ documents = <<>>
    /\ rawConfig = [requireArgumentDefinitions |-> <<>>]
    /\ allFragments = <<>>
    /\ pc = "api"
    /\ idx = 0
    /\ outcome = NoOutcome
    /\ root = NoSelectionSet
    /\ found = <<>>
    /\ first = NoFirst

\* The nodes a caller of the public API hands over: built by hand, without
\* loc, or taken from a parsed document, with the loc of their first token.
ApiDefinitionNodes ==
    IF entry = "parsed" THEN {[d EXCEPT !.loc = At(1, 1)] : d \in DefinitionNodes}
    ELSE DefinitionNodes
ApiSpreadNodes ==
    IF entry = "parsed" THEN {[s EXCEPT !.loc = At(1, 2)] : s \in SpreadNodes}
    ELSE SpreadNodes

\* A plugin run, with allFragments collected and the visitor constructed.
InitPlugin ==
    /\ entry = "plugin"
    /\ documents \in DocumentSets
    /\ rawConfig \in RawConfigs
    /\ allFragments = collectAllFragments(documents)
    /\ visitor = newVisitor(configWithDefaults(rawConfig))
    /\ last = NoCall
    /\ calls = 0
    /\ pc = Position("pass1", 1, allFragments, definitionsOf(documents))[1]
    /\ idx = 1
    /\ outcome = NoOutcome
    /\ root = NoSelectionSet
    /\ found = <<>>
    /\ first = NoFirst

\* findFragmentSpreads about to be called on a selection set.
InitFind ==
    /\ entry = "find"
    /\ root \in SelectionTrees
    /\ first = NoFirst
    /\ found = <<>>
    /\ visitor = newVisitor(DefaultConfig)
    /\ last = NoCall
    /\ calls = 0
    /\ documents = <<>>
    /\ rawConfig = [requireArgumentDefinitions |-> <<>>]
    /\ allFragments = <<>>
    /\ pc = "find"
    /\ idx = 0
    /\ outcome = NoOutcome

Init == InitApi \/ InitPlugin

run == <<documents, rawConfig, allFragments, pc, idx, outcome>>
walk == <<root, found>>

ApiValidateFragment ==
    /\ entry \in {"api", "parsed"}
    /\ visitor.fragmentsChecked < MaxChecked
    /\ Len(visitor.issues) < MaxIssues
    /\ \E n \in Names, node \in ApiDefinitionNodes :
        /\ visitor' = validateFragment(visitor, n, node)
        /\ last' = [NoCall EXCEPT !.op = "validateFragment", !.name = n, !.node = node,
                                  !.base = Len(visitor.issues)]
        /\ calls' = calls + 1
    /\ UNCHANGED <<entry, walk, first, run>>

ApiCollectFragmentSpread ==
    /\ entry \in {"api", "parsed"}
    /\ Len(visitor.fragmentSpreads) < MaxSpreads
    /\ \E spread \in ApiSpreadNodes :
        /\ visitor' = collectFragmentSpread(visitor, spread)
        /\ last' = [NoCall EXCEPT !.op = "collectFragmentSpread", !.name = spread.name,
                                  !.base = Len(visitor.issues)]
    /\ UNCHANGED <<entry, walk, first, calls, run>>

ApiValidateFragmentSpreads ==
    /\ entry \in {"api", "parsed"}
    /\ Len(visitor.issues) < MaxIssues
    /\ \E policy \in UndefinedPolicies :
        LET r == validateFragmentSpreads(visitor, policy)
        IN /\ visitor' = r.visitor
           /\ last' = [NoCall EXCEPT !.op = "validateFragmentSpreads",
                                     !.base = Len(visitor.issues),
                                     !.emitted = r.emitted, !.threw = r.threw]
    /\ UNCHANGED <<entry, walk, first, calls, run>>

\* First pass: visitor.validateFragment(fragment.name, fragment.node)
PluginValidateFragment ==
    /\ entry = "plugin"
    /\ pc = "pass1"
    /\ LET fragment == allFragments[idx]
           to == Position("pass1", idx + 1, allFragments, definitionsOf(documents))
       IN /\ visitor' = validateFragment(visitor, fragment.name, fragment.node)
          /\ last' = [NoCall EXCEPT !.op = "validateFragment", !.name = fragment.name,
                                    !.node = [hasDirectives |-> fragment.node.hasDirectives,
                                              directives |-> fragment.node.directives,
                                              loc |-> fragment.node.loc],
                                    !.base = Len(visitor.issues)]
          /\ calls' = calls + 1
          /\ pc' = to[1]
          /\ idx' = to[2]
    /\ UNCHANGED <<entry, walk, first, documents, rawConfig, allFragments, outcome>>

\* Second pass, one definition: its spreads are found and collected.
PluginCollectSpreads ==
    /\ entry = "plugin"
    /\ pc = "pass2"
    /\ LET definition == definitionsOf(documents)[idx]
           spreads == IF HasSelectionSet(definition)
                      THEN findFragmentSpreads(definition.selectionSet)
                      ELSE <<>>
           to == Position("pass2", idx + 1, allFragments, definitionsOf(documents))
       IN /\ visitor' = collectSpreads(visitor, spreads)
          /\ last' = IF spreads = <<>> THEN last
                     ELSE [NoCall EXCEPT !.op = "collectFragmentSpread",
                                         !.name = spreads[Len(spreads)].name,
                                         !.base = Len(visitor.issues)]
          /\ pc' = to[1]
          /\ idx' = to[2]
    /\ UNCHANGED <<entry, walk, first, calls, documents, rawConfig, allFragments, outcome>>

\* Third pass: visitor.validateFragmentSpreads().  When it throws, the
\* exception leaves plugin() as it is.
PluginValidateFragmentSpreads ==
    /\ entry = "plugin"
    /\ pc = "pass3"
    /\ \E policy \in (IF first.ran THEN {first.policy} ELSE UndefinedPolicies) :
        LET r == validateFragmentSpreads(visitor, policy)
        IN /\ visitor' = r.visitor
           /\ last' = [NoCall EXCEPT !.op = "validateFragmentSpreads",
                                     !.base = Len(visitor.issues),
                                     !.emitted = r.emitted, !.threw = r.threw,
                                     !.policy = policy]
           /\ pc' = IF r.threw THEN "done" ELSE "escalate"
           /\ outcome' = IF r.threw THEN [NoOutcome EXCEPT !.kind = "aborted"] ELSE outcome
    /\ UNCHANGED <<entry, walk, first, calls, documents, rawConfig, allFragments, idx>>

\* getIssues, getStats, and the throw or the return that ends the run.
PluginEscalate ==
    /\ entry = "plugin"
    /\ pc = "escalate"
    /\ outcome' = escalate(getIssues(visitor), getStats(visitor))
    /\ pc' = "done"
    /\ UNCHANGED <<entry, walk, first, visitor, last, calls, documents, rawConfig, allFragments, idx>>

\* plugin(schema, documents, config) called a second time, once the first
\* call has returned or thrown.
PluginRunAgain ==
    /\ entry = "plugin"
    /\ pc = "done"
    /\ ~first.ran
    /\ first' = [ran |-> TRUE, outcome |-> outcome, issues |-> getIssues(visitor),
                 stats |-> getStats(visitor), policy |-> last.policy]
    /\ allFragments' = collectAllFragments(documents)
    /\ visitor' = visitorOfRun(visitor, configWithDefaults(rawConfig))
    /\ last' = NoCall
    /\ calls' = 0
    /\ pc' = Position("pass1", 1, allFragments', definitionsOf(documents))[1]
    /\ idx' = 1
    /\ outcome' = NoOutcome
    /\ UNCHANGED <<entry, walk, documents, rawConfig>>

\* findFragmentSpreads(selectionSet)
FindFragmentSpreads ==
    /\ entry = "find"
    /\ pc = "find"
    /\ found' = findFragmentSpreads(root)
    /\ pc' = "found"
    /\ UNCHANGED <<entry, root, first, visitor, last, calls, documents, rawConfig,
                   allFragments, idx, outcome>>

NextApi ==
    \/ ApiValidateFragment
    \/ ApiCollectFragmentSpread
    \/ ApiValidateFragmentSpreads

NextPlugin ==
    \/ PluginValidateFragment
    \/ PluginCollectSpreads
    \/ PluginValidateFragmentSpreads
    \/ PluginEscalate

Next == NextApi \/ NextPlugin

\* The visitor's public methods called in any order, a plugin run, and both.
VisitorSpec == InitApi /\ [][NextApi]_vars
PluginSpec == InitPlugin /\ [][NextPlugin]_vars
Spec == Init /\ [][Next]_vars

\* A plugin run and a second one on the same documents and configuration.
TwiceSpec == InitPlugin /\ [][NextPlugin \/ PluginRunAgain]_vars

\* The visitor's public methods called, in any order, with parsed nodes.
ParsedSpec == InitParsed /\ [][NextApi]_vars

\* findFragmentSpreads by itself, on every selection tree.
FindSpec == InitFind /\ [][FindFragmentSpreads]_vars

\* ----------------------------------------------------------------- claims
RECURSIVE Flatten(_)
Flatten(seqs) == IF seqs = <<>> THEN <<>> ELSE Head(seqs) \o Flatten(Tail(seqs))

\* What the last call appended to the issue list.
Appended == SubSeq(visitor.issues, last.base + 1, Len(visitor.issues))

\* After validateFragmentSpreads: the spreads it matched are the first
\* Len(last.emitted) of the list (all of them when it returned), and what it
\* appended is what the matched spreads emitted, in order.
Matched ==
    /\ last.op = "validateFragmentSpreads"
    /\ Len(last.emitted) <= Len(visitor.fragmentSpreads)
    /\ ~last.threw => Len(last.emitted) = Len(visitor.fragmentSpreads)
    /\ Appended = Flatten(last.emitted)

Indexed(S) == S.name \in DOMAIN visitor.fragmentDefinitions
Declares(S) == visitor.fragmentDefinitions[S.name].hasArgumentDefinitions

OneError(issues, message, fragmentName) ==
    /\ Len(issues) = 1
    /\ issues[1].level = "error"
    /\ issues[1].message = message
    /\ issues[1].fragmentName = fragmentName

C3_FlagsAgree ==
    last.op = "validateFragmentSpreads" =>
        /\ Matched
        /\ \A k \in 1..Len(last.emitted) :
            LET S == visitor.fragmentSpreads[k]
            IN (Indexed(S) /\ Declares(S) = S.hasArguments) => last.emitted[k] = <<>>

C3_Witness ==
    /\ last.op = "validateFragmentSpreads"
    /\ \E k, j \in 1..Len(last.emitted) :
        LET S == visitor.fragmentSpreads[k]
            T == visitor.fragmentSpreads[j]
        IN /\ Indexed(S) /\ Declares(S) /\ S.hasArguments
           /\ Indexed(T) /\ ~Declares(T) /\ ~T.hasArguments
           /\ Appended = <<>>
\* The node carries a directive named exactly "argumentDefinitions".
CarriesArgumentDefinitions(node) ==
    node.hasDirectives /\ \E k \in 1..Len(node.directives) :
                              node.directives[k] = "argumentDefinitions"

\* C4: validateFragment(name, node) appends exactly one issue (an error,
\* "must have @argumentDefinitions directive", attributed to name) when
\* requireArgumentDefinitions is true and node has no directive named
\* argumentDefinitions, and appends nothing in every other case.
C4_DefinitionRule ==
    last.op = "validateFragment" =>
        IF visitor.config.requireArgumentDefinitions /\ ~CarriesArgumentDefinitions(last.node)
        THEN OneError(Appended, "must have @argumentDefinitions directive", last.name)
        ELSE Appended = <<>>

FragmentPositions ==
    {k \in 1..Len(definitionsOf(documents)) :
        definitionsOf(documents)[k].kind = "FragmentDefinition"}

\* C5: a plugin run whose configuration leaves requireArgumentDefinitions
\* unset runs the visitor with requireArgumentDefinitions = true, and a
\* fragment definition without @argumentDefinitions makes the run fail.
C5_DefaultRequires ==
    (entry = "plugin" /\ rawConfig.requireArgumentDefinitions = <<>>) =>
        /\ visitor.config.requireArgumentDefinitions
        /\ (pc = "done" /\ \E k \in FragmentPositions :
                              ~CarriesArgumentDefinitions(definitionsOf(documents)[k]))
                => outcome.kind # "returned"

ErrorCount == Cardinality({k \in 1..Len(visitor.issues) : visitor.issues[k].level = "error"})

RECURSIVE SpreadCount(_)
SpreadCount(selections) ==
    IF selections = <<>> THEN 0
    ELSE (IF Head(selections).kind = "FragmentSpread" THEN 1
          ELSE SpreadCount(Head(selections).selectionSet.selections))
         + SpreadCount(Tail(selections))

RECURSIVE SpreadsIn(_)
SpreadsIn(defs) ==
    IF defs = <<>> THEN 0
    ELSE (IF Head(defs).kind \in {"OperationDefinition", "FragmentDefinition"}
          THEN SpreadCount(Head(defs).selectionSet.selections) ELSE 0)
         + SpreadsIn(Tail(defs))

PassesFinished ==
    /\ calls = Cardinality(FragmentPositions)
    /\ Len(visitor.fragmentSpreads) = SpreadsIn(definitionsOf(documents))
    /\ last.op = "validateFragmentSpreads"
    /\ ~last.threw

CountMessage(message) ==
    Cardinality({k \in 1..Len(visitor.issues) : visitor.issues[k].message = message})

\* C7: a plugin run that reaches its verdict has every rule violation in its
\* issue list (one issue per fragment definition that lacks a required
\* @argumentDefinitions, one per spread whose @arguments does not match its
\* definition), and the N of "failed with N error(s)" is the number of
\* error-level issues in the list.
C7_AllViolationsReported ==
    (entry = "plugin" /\ pc = "done" /\ outcome.kind # "aborted") =>
        /\ CountMessage("must have @argumentDefinitions directive")
             = Cardinality({k \in FragmentPositions :
                    /\ visitor.config.requireArgumentDefinitions
                    /\ ~CarriesArgumentDefinitions(definitionsOf(documents)[k])})
        /\ CountMessage("must have @arguments directive")
             = Cardinality({k \in 1..Len(visitor.fragmentSpreads) :
                    LET S == visitor.fragmentSpreads[k]
                    IN Indexed(S) /\ Declares(S) /\ ~S.hasArguments})
        /\ CountMessage("does not define @argumentDefinitions")
             = Cardinality({k \in 1..Len(visitor.fragmentSpreads) :
                    LET S == visitor.fragmentSpreads[k]
                    IN Indexed(S) /\ ~Declares(S) /\ S.hasArguments})
        /\ outcome.kind = "failed" => outcome.errors = ErrorCount

IssueNames == {visitor.issues[k].fragmentName : k \in 1..Len(visitor.issues)}

\* C8: getStats().fragmentsWithIssues is the number of distinct fragmentName
\* values among the issues of getIssues().
C8_DistinctNames ==
    getStats(visitor).fragmentsWithIssues
        = Cardinality({getIssues(visitor)[k].fragmentName : k \in 1..Len(getIssues(visitor))})

NoNameTwice ==
    \A j, k \in 1..Len(visitor.issues) :
        visitor.issues[j].fragmentName = visitor.issues[k].fragmentName => j = k

\* C9: fragmentsWithIssues <= totalIssues, with equality exactly when no
\* fragment name occurs in more than one issue, and totalIssues is the length
\* of the issue list.
C9_StatsOrder ==
    /\ getStats(visitor).fragmentsWithIssues <= getStats(visitor).totalIssues
    /\ getStats(visitor).fragmentsWithIssues = getStats(visitor).totalIssues <=> NoNameTwice
    /\ getStats(visitor).totalIssues = Len(visitor.issues)

\* C10: getStats().fragmentsChecked is the number of validateFragment calls
\* made so far; once a plugin run has left its first pass that is the number
\* of fragment definitions in the documents, each counted once.
C10_FragmentsChecked ==
    /\ getStats(visitor).fragmentsChecked = calls
    /\ (entry = "plugin" /\ pc # "pass1") =>
            getStats(visitor).fragmentsChecked = Cardinality(FragmentPositions)

C10_Witness ==
    /\ entry = "plugin"
    /\ pc = "done"
    /\ getStats(visitor).fragmentsChecked = 2
    /\ Cardinality(DOMAIN visitor.fragmentDefinitions) = 1
    /\ visitor.issues = <<>>

HasCount(report, label, number) ==
    \E k \in 1..Len(report) :
        report[k].kind = "count" /\ report[k].text = label /\ report[k].number = number

\* C11: the report a plugin run produces has the three summary lines:
\* "Fragments checked" with the number of fragment definitions in the input,
\* "Fragments with issues" and "Total issues" with the visitor's counts.
C11_ReportCounts ==
    (entry = "plugin" /\ outcome.kind \in {"returned", "failed"}) =>
        /\ HasCount(outcome.report, "Fragments checked", Cardinality(FragmentPositions))
        /\ HasCount(outcome.report, "Fragments with issues",
                    getStats(visitor).fragmentsWithIssues)
        /\ HasCount(outcome.report, "Total issues", getStats(visitor).totalIssues)

\* Every FragmentSpread node below a list of selections, at any depth.
RECURSIVE SpreadsWithin(_)
SpreadsWithin(selections) ==
    IF selections = <<>> THEN {}
    ELSE (IF Head(selections).kind = "FragmentSpread" THEN {Head(selections)}
          ELSE SpreadsWithin(Head(selections).selectionSet.selections))
         \cup SpreadsWithin(Tail(selections))

\* C12: findFragmentSpreads(selectionSet) returns the FragmentSpread nodes
\* below selectionSet, at any depth through fields and inline fragments, each
\* exactly once and in source order (depth-first, left to right); an absent or
\* empty selection set gives the empty sequence.
C12_FindFragmentSpreads ==
    pc = "found" =>
        /\ {found[k] : k \in 1..Len(found)} = SpreadsWithin(root.selections)
        /\ Len(found) = Cardinality(SpreadsWithin(root.selections))
        /\ \A j, k \in 1..Len(found) : j < k => found[j].loc.column < found[k].loc.column
        /\ (~root.present \/ root.selections = <<>>) => found = <<>>

C12_Witness ==
    /\ pc = "found"
    /\ Len(root.selections) = 2
    /\ root.selections[1].kind = "Field"
    /\ Len(root.selections[1].selectionSet.selections) = 1
    /\ root.selections[1].selectionSet.selections[1].kind = "InlineFragment"
    /\ root.selections[2].kind = "FragmentSpread"
    /\ Len(found) = 2
    /\ found[2] = root.selections[2]

DefinedInDocuments(name) ==
    \E k \in FragmentPositions : definitionsOf(documents)[k].name = name

UndefinedSpreads ==
    {k \in 1..Len(visitor.fragmentSpreads) : ~Indexed(visitor.fragmentSpreads[k])}

SaysNoIssues(report) ==
    \E k \in 1..Len(report) : report[k].text = "No issues found! All fragments are valid."

\* C14: in a plugin run a collected spread of a fragment without an indexed
\* definition is never passed over.  Once validateFragmentSpreads has been
\* called, either it threw (and then at such a spread, ending the run without
\* a report), or every such spread got exactly one error, "references an
\* undefined fragment", attributed to its name; and while such a spread exists
\* the run neither returns a report nor says "No issues found".
C14_UndefinedNeverAccepted ==
    entry = "plugin" =>
        /\ last.op = "validateFragmentSpreads" =>
                IF last.threw
                THEN /\ Len(last.emitted) + 1 \in UndefinedSpreads
                     /\ outcome.kind = "aborted"
                     /\ outcome.report = <<>>
                ELSE \A k \in UndefinedSpreads :
                        OneError(last.emitted[k], "references an undefined fragment",
                                 visitor.fragmentSpreads[k].name)
        /\ (pc = "done" /\ UndefinedSpreads # {}) =>
                /\ outcome.kind \in {"aborted", "failed"}
                /\ ~SaysNoIssues(outcome.report)

C14_Witness ==
    /\ entry = "plugin"
    /\ pc = "done"
    /\ outcome.kind = "failed"
    /\ Cardinality(UndefinedSpreads) = 2
    /\ Len(visitor.issues) = 2
    /\ visitor.issues[1].message = "references an undefined fragment"
    /\ visitor.issues[2].message = "references an undefined fragment"

\* C15: a second plugin run on the same documents and configuration starts
\* from a visitor that holds no issue, spread or definition of the first run,
\* and ends as the first did: same outcome (the report returned or the message
\* thrown), same issue sequence, same counts.
C15_SecondRunSame ==
    first.ran =>
        /\ last = NoCall =>
                /\ visitor.issues = <<>>
                /\ visitor.fragmentSpreads = <<>>
                /\ DOMAIN visitor.fragmentDefinitions = {}
                /\ getStats(visitor) = NoFirst.stats
        /\ pc = "done" =>
                /\ outcome = first.outcome
                /\ getIssues(visitor) = first.issues
                /\ getStats(visitor) = first.stats
                /\ Len(visitor.fragmentSpreads) = SpreadsIn(definitionsOf(documents))

C15_Witness ==
    /\ first.ran
    /\ pc = "done"
    /\ outcome.kind = "failed"
    /\ outcome = first.outcome
    /\ Len(visitor.issues) = 2
    /\ getStats(visitor).fragmentsChecked = 1

\* The last fragment definition of a name in the documents.
LastDefinitionOf(name) ==
    LET defs == definitionsOf(documents)
        of == {k \in FragmentPositions : defs[k].name = name}
    IN defs[CHOOSE k \in of : \A j \in of : j <= k]

NamesPassed ==
    (DOMAIN visitor.fragmentDefinitions)
    \cup {visitor.fragmentSpreads[k].name : k \in 1..Len(visitor.fragmentSpreads)}

\* C17: every issue in the issue list is attributed to a name that was handed
\* to validateFragment or to collectFragmentSpread on this visitor.
C17_NamesTraceable ==
    \A k \in 1..Len(visitor.issues) : visitor.issues[k].fragmentName \in NamesPassed

\* The FragmentSpread nodes of the first n definitions of the documents.
RECURSIVE SpreadNodesUpTo(_)
SpreadNodesUpTo(n) ==
    IF n = 0 THEN {}
    ELSE LET definition == definitionsOf(documents)[n]
         IN (IF definition.kind \in {"OperationDefinition", "FragmentDefinition"}
             THEN SpreadsWithin(definition.selectionSet.selections) ELSE {})
            \cup SpreadNodesUpTo(n - 1)

\* The spread list holds the nodes of `nodes`, each once.
CollectedOnce(nodes) ==
    /\ Len(visitor.fragmentSpreads) = Cardinality(nodes)
    /\ {[name |-> visitor.fragmentSpreads[k].name,
          location |-> visitor.fragmentSpreads[k].location] :
            k \in 1..Len(visitor.fragmentSpreads)}
         = {[name |-> node.name, location |-> node.loc] : node \in nodes}

\* C18: in a plugin run every FragmentSpread node of the documents is handed
\* to collectFragmentSpread exactly once: none before the second pass, during
\* it those of the definitions traversed so far (a spread in a fragment's body
\* when that fragment definition is traversed, not when a spread names the
\* fragment), and all of them from the end of the second pass on.
C18_EachSpreadOnce ==
    entry = "plugin" =>
        /\ pc = "pass1" => visitor.fragmentSpreads = <<>>
        /\ pc = "pass2" => CollectedOnce(SpreadNodesUpTo(idx - 1))
        /\ pc \in {"pass3", "escalate", "done"} =>
                CollectedOnce(SpreadNodesUpTo(Len(definitionsOf(documents))))

C18_Witness ==
    /\ entry = "plugin"
    /\ pc = "done"
    /\ Len(definitionsOf(documents)) = 2
    /\ definitionsOf(documents)[1].kind = "OperationDefinition"
    /\ definitionsOf(documents)[2].kind = "FragmentDefinition"
    /\ Len(visitor.fragmentSpreads) = 2
    /\ visitor.fragmentSpreads[1].name = definitionsOf(documents)[2].name
    /\ visitor.fragmentSpreads[1].location.line = 1
    /\ visitor.fragmentSpreads[2].location.line = 2

\* C19: a call of collectFragmentSpread only records the spread: it appends one
\* record to the spread list and leaves the issue list, the set of fragments
\* with issues and the count of fragments checked as they were.
C19_CollectOnlyRecords ==
    [][ApiCollectFragmentSpread =>
          /\ visitor'.issues = visitor.issues
          /\ visitor'.fragmentsWithIssues = visitor.fragmentsWithIssues
          /\ visitor'.fragmentsChecked = visitor.fragmentsChecked
          /\ getStats(visitor') = getStats(visitor)
          /\ Len(visitor'.fragmentSpreads) = Len(visitor.fragmentSpreads) + 1]_vars

C19_Witness ==
    /\ entry = "api"
    /\ last.op = "collectFragmentSpread"
    /\ visitor.fragmentSpreads # <<>>
    /\ visitor.issues # <<>>
    /\ visitor.fragmentsWithIssues # {}
    /\ visitor.fragmentsChecked > 0

\* Spread record S breaks a rule of the matcher: it names no indexed
\* definition, or its @arguments and the definition's @argumentDefinitions
\* do not go together.
Violates(S) ==
    \/ S.name \notin DOMAIN visitor.fragmentDefinitions
    \/ visitor.fragmentDefinitions[S.name].hasArgumentDefinitions # S.hasArguments

\* C20: in a plugin run the matcher appends at most one issue for each spread
\* record, so the issues it appends are no more than the spreads collected;
\* and two spreads of one fragment that both break a rule give two issues, one
\* at each spread's location.
C20_OneIssuePerSpread ==
    (entry = "plugin" /\ last.op = "validateFragmentSpreads") =>
        /\ Len(last.emitted) <= Len(visitor.fragmentSpreads)
        /\ \A k \in 1..Len(last.emitted) : Len(last.emitted[k]) <= 1
        /\ Flatten(last.emitted)
             = SubSeq(visitor.issues, last.base + 1, Len(visitor.issues))
        /\ Len(visitor.issues) - last.base <= Len(visitor.fragmentSpreads)
        /\ \A j, k \in 1..Len(last.emitted) :
                LET Sj == visitor.fragmentSpreads[j]
                    Sk == visitor.fragmentSpreads[k]
                IN (j < k /\ Sj.name = Sk.name /\ Violates(Sj) /\ Violates(Sk)) =>
                      /\ Len(last.emitted[j]) = 1
                      /\ Len(last.emitted[k]) = 1
                      /\ last.emitted[j][1].location = Sj.location
                      /\ last.emitted[k][1].location = Sk.location
                      /\ last.emitted[j][1].fragmentName = Sj.name
                      /\ last.emitted[k][1].fragmentName = Sk.name

C20_Witness ==
    /\ entry = "plugin"
    /\ last.op = "validateFragmentSpreads"
    /\ ~last.threw
    /\ Len(visitor.fragmentSpreads) = 2
    /\ visitor.fragmentSpreads[1].name = visitor.fragmentSpreads[2].name
    /\ visitor.fragmentSpreads[1].location # visitor.fragmentSpreads[2].location
    /\ visitor.fragmentSpreads[1].name \in DOMAIN visitor.fragmentDefinitions
    /\ Len(last.emitted) = 2
    /\ Len(last.emitted[1]) = 1
    /\ Len(last.emitted[2]) = 1
    /\ last.emitted[1][1].location # last.emitted[2][1].location

\* Sequence a is the beginning of sequence b.
IsPrefix(a, b) == Len(a) <= Len(b) /\ SubSeq(b, 1, Len(a)) = a

\* C21: the issue list is append-only: across every operation on the visitor
\* the list before the operation is a prefix of the list after it.
C21_IssuesAppendOnly ==
    [][IsPrefix(visitor.issues, visitor'.issues)]_vars

C21_Witness ==
    /\ entry = "api"
    /\ last.base > 0
    /\ Len(visitor.issues) > last.base
    /\ visitor.issues[1] # visitor.issues[Len(visitor.issues)]

\* The names of the fragment definitions among the first n definitions of the
\* documents that break the definition rule, in document order.
RECURSIVE DefinitionViolations(_)
DefinitionViolations(n) ==
    IF n = 0 THEN <<>>
    ELSE LET definition == definitionsOf(documents)[n]
         IN DefinitionViolations(n - 1)
            \o (IF /\ definition.kind = "FragmentDefinition"
                   /\ visitor.config.requireArgumentDefinitions
                   /\ ~CarriesArgumentDefinitions(definition)
                THEN <<definition.name>> ELSE <<>>)

\* The issues the third pass appended are the end of the issue list, spread by
\* spread in collection order, each at its spread's name and location.
SpreadIssuesLast ==
    /\ Len(Flatten(last.emitted)) <= Len(visitor.issues)
    /\ SubSeq(visitor.issues, Len(visitor.issues) - Len(Flatten(last.emitted)) + 1,
              Len(visitor.issues)) = Flatten(last.emitted)
    /\ \A k \in 1..Len(last.emitted) : \A i \in 1..Len(last.emitted[k]) :
            /\ last.emitted[k][i].fragmentName = visitor.fragmentSpreads[k].name
            /\ last.emitted[k][i].location = visitor.fragmentSpreads[k].location

SectionHeads(report) == {i \in 1..Len(report) : report[i].kind = "fragment"}

\* The fragment name of the section line i of the report stands in: that of
\* the nearest section head above it ("" above the first head).
SectionOf(report, i) ==
    LET above == {h \in SectionHeads(report) : h < i}
    IN IF above = {} THEN ""
       ELSE report[CHOOSE h \in above : \A g \in above : g <= h].text

\* The issue lines of the report that stand in the section of fragmentName,
\* from top to bottom.
RECURSIVE SectionLines(_, _, _)
SectionLines(report, fragmentName, i) ==
    IF i > Len(report) THEN <<>>
    ELSE (IF report[i].kind = "issue" /\ SectionOf(report, i) = fragmentName
          THEN <<report[i]>> ELSE <<>>)
         \o SectionLines(report, fragmentName, i + 1)

C24_IssueLocation ==
    /\ (last.op = "validateFragment" /\ visitor.config.customRules = <<>>) =>
            \A k \in 1..Len(Appended) : Appended[k].location = last.node.loc
    /\ last.op = "validateFragmentSpreads" =>
            \A k \in 1..Len(last.emitted) : \A i \in 1..Len(last.emitted[k]) :
                last.emitted[k][i].location = visitor.fragmentSpreads[k].location

\* The positions of the definitions of fragment name in the documents.
DefinitionsOfName(name) ==
    {k \in FragmentPositions : definitionsOf(documents)[k].name = name}

\* The collected spreads of fragment name that carry @arguments.
SpreadsWithArguments(name) ==
    {k \in 1..Len(visitor.fragmentSpreads) :
        /\ visitor.fragmentSpreads[k].name = name
        /\ visitor.fragmentSpreads[k].hasArguments}

\* C25: the definition rule and the spread rule fire independently.  At the
\* end of a plugin run with requireArgumentDefinitions true, a fragment defined
\* without @argumentDefinitions has one issue for each of its definitions,
\* spread or not, and one more for each of its spreads that carries
\* @arguments, all attributed to it, and it counts once among the fragments
\* with issues.
C25_RulesIndependent ==
    (/\ entry = "plugin"
     /\ pc = "done"
     /\ outcome.kind # "aborted"
     /\ visitor.config.requireArgumentDefinitions) =>
        /\ getStats(visitor).fragmentsWithIssues = Cardinality(IssueNames)
        /\ \A name \in Names :
             (/\ DefinitionsOfName(name) # {}
              /\ \A k \in DefinitionsOfName(name) :
                    ~CarriesArgumentDefinitions(definitionsOf(documents)[k])) =>
                /\ Len(issuesByFragment(visitor.issues, name))
                     = Cardinality(DefinitionsOfName(name))
                       + Cardinality(SpreadsWithArguments(name))
                /\ name \in visitor.fragmentsWithIssues
====
